---- MODULE Spec2Model ----
(***************************************************************************)
(* Allocation engine of oasishorizon (src/engine.py): the price            *)
(* projection, daily invested balances, the SALE rule (gains_at_date), the *)
(* EXIT rule (exit_gains_at_date) and the two guarantee accruals; and the  *)
(* contributions editor of the dashboard (section_contributions,           *)
(* src/app.py) with the session state it reads and writes.                 *)
(*                                                                         *)
(* Dates are day numbers on a compressed calendar: only the order of      *)
(* dates and the number of days between them enter the computations.      *)
(* Contribution amounts and quoted prices are integers (money units);     *)
(* computed prices and results are exact rationals                         *)
(* <<numerator, denominator>> (denominator > 0, lowest terms): the model   *)
(* states the real-number meaning of the float arithmetic of the source.   *)
(***************************************************************************)
EXTENDS Integers, FiniteSets, Sequences, TLC

\* ------------------------------------------------------------------ bounds
MaxDay == 5
MaxAmount == 1
MaxPrice == 2
\* inputs a user changes in one session of the dashboard
MaxEdits == 1

Days == 0..MaxDay
\* contributions come in lots of 300 money units: at the model's horizon of a
\* few days, a guarantee on one lot is comparable to a unit move of the price,
\* as a year's guarantee is to the projected appreciation in the real figures
Amounts == {300 * i : i \in 0..MaxAmount}
Prices == 0..MaxPrice
\* acquisition date / price passed by the caller (the app passes ACQ_DATE, ACQ_PRICE)
AcqDates == {1}
AcqPrices == {1}
\* investment windows, as offsets from the acquisition date (the first window
\* is the acquisition date, as in INVESTMENT_DATES)
WindowOffsets == {0, 2}
\* dates of the quotes of an external price series
PriceDates == {2, 4}
\* plan total asked on every window
PlanTotals == {0, 300}

\* ------------------------------------------------------- program constants
\* date(2028, 9, 30) on the model's calendar: after the last plan window
EXIT_RATE_CUTOFF == 4
\* the 365.0 of the actual/365 day count
DaysPerYear == 365

Participants == {"Antoine", "New investor", "Other investors"}
Others == {"New investor", "Other investors"}

\* ------------------------------------------------------- exact arithmetic
Abs(x) == IF x < 0 THEN -x ELSE x

RECURSIVE Gcd(_, _)
Gcd(a, b) == IF b = 0 THEN a ELSE Gcd(b, a % b)

Norm(n, d) ==
    LET g == Gcd(Abs(n), Abs(d))
        s == IF d < 0 THEN -1 ELSE 1
    IN  <<(s * n) \div g, (s * d) \div g>>

R(n) == <<n, 1>>
RZero == <<0, 1>>
RAdd(x, y) == Norm(x[1] * y[2] + y[1] * x[2], x[2] * y[2])
RSub(x, y) == Norm(x[1] * y[2] - y[1] * x[2], x[2] * y[2])
RMul(x, y) == Norm(x[1] * y[1], x[2] * y[2])
RDiv(x, y) == Norm(x[1] * y[2], x[2] * y[1])
RLeq(x, y) == x[1] * y[2] <= y[1] * x[2]
RLt(x, y) == x[1] * y[2] < y[1] * x[2]
RMax(x, y) == IF RLt(x, y) THEN y ELSE x

Max(a, b) == IF a > b THEN a ELSE b
SetMin(S) == CHOOSE x \in S : \A y \in S : x <= y
SetMax(S) == CHOOSE x \in S : \A y \in S : y <= x

Rate15 == <<3, 20>>
Rate20 == <<1, 5>>

\* ------------------------------------------------------------------- state
VARIABLES
    contrib_df,      \* contribution table: window date -> row (column -> amount)
    price_series,    \* price series: date -> price
    acq_date,
    acq_price,
    daily_invested,  \* daily balances: day -> row (column -> balance)
    call,            \* the last engine call and its arguments
    ret,             \* what it returned
    session_state,   \* st.session_state of the dashboard session
    secrets,         \* st.secrets: the configuration of the deployment
    edits            \* how many inputs the user has changed in the session

vars == <<contrib_df, price_series, acq_date, acq_price, daily_invested, call, ret,
          session_state, secrets, edits>>

\* the value of an optional argument left at its default (contrib_df = None)
None == <<>>

\* a session that has rendered nothing yet: the currency selector stands on
\* its first option, no contribution is stored, no input widget exists
NewSession ==
    [currency |-> "EUR", new_investor_contributions |-> <<>>,
     admin_contributions |-> <<>>, widgets |-> <<>>]

\* a deployment without investor defaults and without fixed rates
NoSecrets == [investor_defaults |-> None, fixed_rates |-> <<>>]

Row(a, n, p) == ("Antoine" :> a) @@ ("New investor" :> n) @@ ("Total plan" :> p)

Columns(df) == DOMAIN df[SetMin(DOMAIN df)]

\* ----------------------------------------------------------------- helpers
make_daily_index(start, end) == start..end

\* fault: the residual is not clipped at zero
ResidualUnclipped(row) == row["Total plan"] - row["Antoine"] - row["New investor"]

\* fault: Antoine's contribution is not taken off the plan total
ResidualIgnoresAntoine(row) == Max(row["Total plan"] - row["New investor"], 0)

\* residual = (Total plan - Antoine - New investor).clip(lower=0)
Residual(row) == Max(row["Total plan"] - row["Antoine"] - row["New investor"], 0)

WithOther(df) ==
    [w \in DOMAIN df |-> df[w] @@ ("Other investors" :> Residual(df[w]))]

\* fault: no running sum, each day holds that day's own contribution only
CumSumNoCarry(df, col, idx, d) ==
    IF d \in idx /\ d \in DOMAIN df THEN df[d][col] ELSE 0

RECURSIVE CumSumExclusive(_, _, _, _)
\* fault: the running sum of day d leaves out the contribution of day d itself
CumSumExclusive(df, col, idx, d) ==
    IF d \notin idx THEN 0
    ELSE (IF (d - 1) \in idx /\ (d - 1) \in DOMAIN df THEN df[d - 1][col] ELSE 0)
         + CumSumExclusive(df, col, idx, d - 1)

RECURSIVE CumSum(_, _, _, _)
\* cumsum of column col of df, reindexed on idx (missing days count 0), up to day d
CumSum(df, col, idx, d) ==
    IF d \notin idx THEN 0
    ELSE (IF d \in DOMAIN df THEN df[d][col] ELSE 0) + CumSum(df, col, idx, d - 1)

\* fault: the daily total leaves out the residual investors
build_daily_invested_named_total(cdf, acq, end_date) ==
    LET df == [w \in DOMAIN cdf |->
                 [c \in Columns(cdf) \cup {"Other investors"} |->
                    IF c = "Other investors" THEN Residual(cdf[w]) ELSE cdf[w][c]]]
        idx_daily == make_daily_index(acq, end_date)
        bal(c, d) == CumSum(df, c, idx_daily, d)
    IN  [d \in idx_daily |->
            ("Antoine" :> bal("Antoine", d)) @@
            ("New investor" :> bal("New investor", d)) @@
            ("Other investors" :> bal("Other investors", d)) @@
            ("Total" :> bal("Antoine", d) + bal("New investor", d))]

build_daily_invested(cdf, acq, end_date) ==
    LET df == [w \in DOMAIN cdf |->
                 [c \in Columns(cdf) \cup {"Other investors"} |->
                    IF c = "Other investors" THEN Residual(cdf[w]) ELSE cdf[w][c]]]
        idx_daily == make_daily_index(acq, end_date)
        bal(c, d) == CumSum(df, c, idx_daily, d)
    IN  [d \in idx_daily |->
            ("Antoine" :> bal("Antoine", d)) @@
            ("New investor" :> bal("New investor", d)) @@
            ("Other investors" :> bal("Other investors", d)) @@
            ("Total" :> bal("Antoine", d) + bal("New investor", d)
                        + bal("Other investors", d))]

\* fault: the step divides by the number of dates, not of intervals
PriceStepPerDate(acq_price0, target_price, n) == Norm(target_price - acq_price0, n)

\* step = (target_price - acq_price) / (len(idx) - 1)
PriceStep(acq_price0, target_price, n) == Norm(target_price - acq_price0, n - 1)

linear_price_series(acq, acq_price0, target_date, target_price) ==
    LET idx == make_daily_index(acq, target_date)
    IN  IF Cardinality(idx) <= 1 THEN (acq :> R(acq_price0))
        ELSE LET step == PriceStep(acq_price0, target_price, Cardinality(idx))
             IN  [t \in idx |-> RAdd(R(acq_price0), RMul(R(t - acq), step))]

\* fault: past the last quote the price keeps the slope of the last two quotes
InterpolatedExtrapolates(ps, t) ==
    LET before == {q \in DOMAIN ps : q < t}
        after == {q \in DOMAIN ps : q > t}
    IN  IF t \in DOMAIN ps THEN R(ps[t])
        ELSE IF before # {} /\ after # {} THEN
            LET q0 == SetMax(before)
                q1 == SetMin(after)
            IN  RAdd(R(ps[q0]), Norm((ps[q1] - ps[q0]) * (t - q0), q1 - q0))
        ELSE IF Cardinality(before) >= 2 THEN
            LET q1 == SetMax(before)
                q0 == SetMax(before \ {q1})
            IN  RAdd(R(ps[q1]), Norm((ps[q1] - ps[q0]) * (t - q1), q1 - q0))
        ELSE IF before # {} THEN R(ps[SetMax(before)])
        ELSE R(ps[SetMin(after)])

\* the offending dates a caller of build_daily_invested or of
\* per_part_guarantee_by_investment_date is told of: the residual is clipped in
\* place and the functions return the balances, or the guarantees, and nothing
\* else: no warning is raised, logged or returned
OverContributionWarnings(cdf) == {}

\* price of the series at day t after reindex + interpolate(method="time") +
\* ffill + bfill: a known quote, else linear in time between the neighbouring
\* quotes, else the last quote before t, else the first quote after t
Interpolated(ps, t) ==
    LET before == {q \in DOMAIN ps : q < t}
        after == {q \in DOMAIN ps : q > t}
    IN  IF t \in DOMAIN ps THEN R(ps[t])
        ELSE IF before # {} /\ after # {} THEN
            LET q0 == SetMax(before)
                q1 == SetMin(after)
            IN  RAdd(R(ps[q0]), Norm((ps[q1] - ps[q0]) * (t - q0), q1 - q0))
        ELSE IF before # {} THEN R(ps[SetMax(before)])
        ELSE R(ps[SetMin(after)])

_ensure_on_series(ps, d, acq) ==
    IF d \in DOMAIN ps THEN [t \in DOMAIN ps |-> R(ps[t])]
    ELSE [t \in DOMAIN ps \cup {d, acq} |-> Interpolated(ps, t)]

\* daily_invested.reindex(idx).ffill().fillna(0.0), read at day d of idx
Reindexed(daily, idx, d, col) ==
    IF d \in DOMAIN daily THEN daily[d][col]
    ELSE LET known == {e \in DOMAIN daily \cap idx : e < d}
         IN  IF known = {} THEN 0 ELSE daily[SetMax(known)][col]

\* ------------------------------------------------------- guarantee accrual
Zeros == [k \in Participants |-> RZero]

\* fault: a 360-day year
AnnualRateFactor360(rate_annual, days_invested) ==
    RMul(rate_annual, Norm(days_invested, 360))

\* rate_annual * (days_invested / 365.0)
AnnualRateFactor(rate_annual, days_invested) ==
    RMul(rate_annual, Norm(days_invested, DaysPerYear))

\* fault: a contribution dated on the check date is not skipped
NotYetInvestedStrict(inv_date, when) == inv_date > when

\* if inv_date >= when: continue
NotYetInvested(inv_date, when) == inv_date >= when

RECURSIVE AccrueEvents(_, _, _, _, _)
\* the loop over df.index of per_part_guarantee_by_investment_date, for one column
AccrueEvents(df, dates, when, rate_annual, col) ==
    IF dates = {} THEN RZero
    ELSE LET investment_date == SetMin(dates)
             rest == AccrueEvents(df, dates \ {investment_date}, when, rate_annual, col)
         IN  IF NotYetInvested(investment_date, when) THEN rest
             ELSE LET days_invested == Max(when - investment_date, 1)
                      annual_rate_factor == AnnualRateFactor(rate_annual, days_invested)
                      guarantee == RMul(R(df[investment_date][col]), annual_rate_factor)
                  IN  RAdd(guarantee, rest)

per_part_guarantee_by_investment_date(when, cdf, rate_annual) ==
    IF when <= SetMin(DOMAIN cdf) THEN Zeros
    ELSE LET df == IF "Other investors" \notin Columns(cdf) THEN WithOther(cdf) ELSE cdf
         IN  [k \in Participants |-> AccrueEvents(df, DOMAIN df, when, rate_annual, k)]

\* fault: the balance of the first day of the window, not of its last
per_part_guarantee_opening_balance(when, acq, daily, rate_annual) ==
    IF when <= acq THEN Zeros
    ELSE LET start == acq + 1
             idx == make_daily_index(start, when)
             days_invested == Max(when - acq, 1)
             annual_rate_factor == RMul(rate_annual, Norm(days_invested, DaysPerYear))
         IN  [k \in Participants |->
                RMul(R(Reindexed(daily, idx, start, k)), annual_rate_factor)]

per_part_guarantee(when, acq, daily, rate_annual) ==
    IF when <= acq THEN Zeros
    ELSE LET start == acq + 1
             idx == make_daily_index(start, when)
             days_invested == Max(when - acq, 1)
             annual_rate_factor == RMul(rate_annual, Norm(days_invested, DaysPerYear))
             \* final_invested = inv.iloc[-1]
         IN  [k \in Participants |->
                RMul(R(Reindexed(daily, idx, when, k)), annual_rate_factor)]

\* ----------------------------------------------------------------- SALE
total_appreciation(when, acq, price0, ps) ==
    LET price_t == _ensure_on_series(ps, when, acq)[when]
    IN  RMax(RSub(price_t, R(price0)), RZero)

\* fault: every day takes the ratio of the last day of the window
ShareEndOfPeriod(daily, idx, d, col) ==
    LET last == SetMax(idx)
        total == Reindexed(daily, idx, last, "Total")
    IN  IF total = 0 THEN RZero ELSE Norm(Reindexed(daily, idx, last, col), total)

\* fault: a day on which nothing is invested gives every column a full share
ShareOfNothing(daily, idx, d, col) ==
    LET total == Reindexed(daily, idx, d, "Total")
    IN  IF total = 0 THEN R(1) ELSE Norm(Reindexed(daily, idx, d, col), total)

\* one day's share: inv[col] / inv["Total"].replace(0, nan), then fillna(0)
Share(daily, idx, d, col) ==
    LET total == Reindexed(daily, idx, d, "Total")
    IN  IF total = 0 THEN RZero ELSE Norm(Reindexed(daily, idx, d, col), total)

RECURSIVE SumShares(_, _, _, _)
\* shares.sum(axis=0) for one column, over the days of idx up to d
SumShares(daily, idx, d, col) ==
    IF d \notin idx THEN RZero
    ELSE RAdd(Share(daily, idx, d, col), SumShares(daily, idx, d - 1, col))

GainBreakdown(app, gte, fin) == [appreciation |-> app, guarantee |-> gte, final |-> fin]

\* fault: the acquisition date itself is evaluated
BeforeAcquisition(when, acq) == when < acq

\* if when <= acq_date: everybody gets zero
AtOrBeforeAcquisition(when, acq) == when <= acq

\* fault: no floor
FloorFinalNoFloor(app, gte) == app

\* final = max(app, gte)
FloorFinal(app, gte) == RMax(app, gte)

\* fault: the others' amounts are not taken out
SaleResidualKeepsAll(total_app, others_sum) == total_app

\* ant_final = total_appreciation - others_sum
SaleResidual(total_app, others_sum) == RSub(total_app, others_sum)

gains_at_date(when, acq, price0, ps, daily, cdf) ==
    IF AtOrBeforeAcquisition(when, acq)
    THEN [k \in Participants |-> GainBreakdown(RZero, RZero, RZero)]
    ELSE LET total_app == total_appreciation(when, acq, price0, ps)
             start == acq + 1
             idx == make_daily_index(start, when)
             total_days == Max(when - acq, 1)
             daily_app == RDiv(total_app, R(total_days))
             app_ant == RMul(SumShares(daily, idx, when, "Antoine"), daily_app)
             app_new == RMul(SumShares(daily, idx, when, "New investor"), daily_app)
             app_oth == RMul(SumShares(daily, idx, when, "Other investors"), daily_app)
             guarantee_raw ==
                 IF cdf # None
                 THEN per_part_guarantee_by_investment_date(when, cdf, Rate15)
                 ELSE LET days_invested == Max(when - acq, 1)
                          annual_rate_factor ==
                              RMul(Rate15, Norm(days_invested, DaysPerYear))
                      IN  [k \in Participants |->
                             RMul(R(Reindexed(daily, idx, when, k)), annual_rate_factor)]
             gte_new == guarantee_raw["New investor"]
             gte_oth == guarantee_raw["Other investors"]
             final_new == FloorFinal(app_new, gte_new)
             final_oth == FloorFinal(app_oth, gte_oth)
             others_sum == RAdd(final_new, final_oth)
             ant_final == SaleResidual(total_app, others_sum)
         IN  ("Antoine" :> GainBreakdown(app_ant, RZero, ant_final)) @@
             ("New investor" :> GainBreakdown(app_new, gte_new, final_new)) @@
             ("Other investors" :> GainBreakdown(app_oth, gte_oth, final_oth))

\* ----------------------------------------------------------------- EXIT
\* fault: the later rate from the start
ExitRateFlat20(when) == Rate20

\* fault: the cutoff date itself still pays the lower rate
ExitRateStrict(when) == IF when > EXIT_RATE_CUTOFF THEN Rate20 ELSE Rate15

\* rate_annual = 0.20 if when >= EXIT_RATE_CUTOFF else 0.15
ExitRate(when) == IF when >= EXIT_RATE_CUTOFF THEN Rate20 ELSE Rate15

\* fault: the guarantees are not taken out
ExitResidualKeepsAll(total_app, others_sum) == total_app

\* ant_residual = total_appreciation - others_sum
ExitResidual(total_app, others_sum) == RSub(total_app, others_sum)

exit_gains_at_date(when, acq, price0, ps, daily, cdf) ==
    LET total_app == total_appreciation(when, acq, price0, ps)
        rate_annual == ExitRate(when)
        g == IF cdf # None
             THEN per_part_guarantee_by_investment_date(when, cdf, rate_annual)
             ELSE per_part_guarantee(when, acq, daily, rate_annual)
        others_sum == RAdd(g["New investor"], g["Other investors"])
        ant_residual == ExitResidual(total_app, others_sum)
    IN  [amounts |-> ("Antoine" :> ant_residual) @@
                     ("New investor" :> g["New investor"]) @@
                     ("Other investors" :> g["Other investors"]),
         rate_annual |-> rate_annual]

\* ------------------------------------------------------------ Init / Next
WindowDates(a) == {a + o : o \in WindowOffsets}

\* the contribution tables: the named participants' amounts on every window,
\* and a plan total
ContribTables(a) ==
    {[w \in WindowDates(a) |-> Row(ant[w], new[w], p)] :
        ant \in [WindowDates(a) -> Amounts], new \in [WindowDates(a) -> Amounts],
        p \in PlanTotals}

\* end dates the caller builds the balances to: one short of the later
\* evaluation dates (the balances are then carried forward), one covering all
EndDates == {MaxDay - 3, MaxDay}

Init ==
    /\ acq_date \in AcqDates
    /\ acq_price \in AcqPrices
    /\ contrib_df \in ContribTables(acq_date)
    /\ price_series \in [PriceDates -> Prices]
    /\ \E end_date \in EndDates :
          /\ daily_invested = build_daily_invested(contrib_df, acq_date, end_date)
          /\ call = [op |-> "build_daily_invested", end_date |-> end_date]
    /\ ret = None
    /\ session_state = NewSession
    /\ secrets = NoSecrets
    /\ edits = 0

Inputs == <<contrib_df, price_series, acq_date, acq_price, session_state, secrets,
            edits>>

\* what the calls leave alone whatever they do with their arguments
Config == <<acq_date, acq_price, session_state, secrets, edits>>

\* fault: the callee works on the caller's object itself
EditedInPlace(arg, edited) == edited

\* x = arg.copy() (or arg.reindex(...)): the callee edits an object of its own,
\* the caller's object is what it was
Copied(arg, edited) == arg

\* the table per_part_guarantee_by_investment_date works on at the end of a
\* call: with the residual column, unless it has returned before the copy
TableWithResidual(cdf, when) ==
    IF when <= SetMin(DOMAIN cdf) \/ "Other investors" \in Columns(cdf) THEN cdf
    ELSE WithOther(cdf)

\* inv = daily_invested.reindex(idx).ffill().fillna(0.0)
ReindexedTable(daily, idx) ==
    [d \in idx |-> [c \in Participants \cup {"Total"} |-> Reindexed(daily, idx, d, c)]]

BuildDailyInvested(end_date) ==
    /\ daily_invested' = build_daily_invested(contrib_df, acq_date, end_date)
    /\ call' = [op |-> "build_daily_invested", end_date |-> end_date]
    /\ ret' = None
    /\ contrib_df' = Copied(contrib_df, WithOther(contrib_df))
    /\ UNCHANGED <<price_series, Config>>

\* the contribution table argument of a call: the table, or left out
ContribArgs == {contrib_df, None}

GainsAtDate(when, cdf) ==
    /\ ret' = gains_at_date(when, acq_date, acq_price, price_series, daily_invested, cdf)
    /\ call' = [op |-> "gains_at_date", when |-> when, contrib_df |-> cdf]
    /\ LET returned_zeros == AtOrBeforeAcquisition(when, acq_date)
       IN  /\ price_series' =
                Copied(price_series,
                       IF returned_zeros THEN price_series
                       ELSE _ensure_on_series(price_series, when, acq_date))
           /\ daily_invested' =
                Copied(daily_invested,
                       IF returned_zeros THEN daily_invested
                       ELSE ReindexedTable(daily_invested,
                                           make_daily_index(acq_date + 1, when)))
           /\ contrib_df' =
                Copied(contrib_df,
                       IF returned_zeros \/ cdf = None THEN contrib_df
                       ELSE TableWithResidual(cdf, when))
    /\ UNCHANGED Config

ExitGainsAtDate(when, cdf) ==
    /\ ret' = exit_gains_at_date(when, acq_date, acq_price, price_series,
                                 daily_invested, cdf)
    /\ call' = [op |-> "exit_gains_at_date", when |-> when, contrib_df |-> cdf]
    /\ price_series' = Copied(price_series,
                              _ensure_on_series(price_series, when, acq_date))
    /\ daily_invested' =
          Copied(daily_invested,
                 IF cdf # None \/ when <= acq_date THEN daily_invested
                 ELSE ReindexedTable(daily_invested,
                                     make_daily_index(acq_date + 1, when)))
    /\ contrib_df' = Copied(contrib_df,
                            IF cdf = None THEN contrib_df
                            ELSE TableWithResidual(cdf, when))
    /\ UNCHANGED Config

PerPartGuaranteeByInvestmentDate(when, rate_annual) ==
    /\ ret' = per_part_guarantee_by_investment_date(when, contrib_df, rate_annual)
    /\ call' = [op |-> "per_part_guarantee_by_investment_date", when |-> when,
                rate_annual |-> rate_annual]
    /\ contrib_df' = Copied(contrib_df, TableWithResidual(contrib_df, when))
    /\ UNCHANGED <<price_series, daily_invested, Config>>

PerPartGuarantee(when, rate_annual) ==
    /\ ret' = per_part_guarantee(when, acq_date, daily_invested, rate_annual)
    /\ call' = [op |-> "per_part_guarantee", when |-> when, rate_annual |-> rate_annual]
    /\ UNCHANGED <<Inputs, daily_invested>>

\* the SALE rule on every input
Next ==
    \/ \E e \in EndDates : BuildDailyInvested(e)
    \/ \E when \in Days, cdf \in ContribArgs : GainsAtDate(when, cdf)

Spec == Init /\ [][Next]_vars

\* the EXIT rule on every input
NextExit ==
    \/ \E e \in EndDates : BuildDailyInvested(e)
    \/ \E when \in Days, cdf \in ContribArgs : ExitGainsAtDate(when, cdf)

SpecExit == Init /\ [][NextExit]_vars

\* the two guarantee accruals on every input
NextGuarantee ==
    \/ \E e \in EndDates : BuildDailyInvested(e)
    \/ \E when \in Days, r \in {Rate15, Rate20} :
          PerPartGuaranteeByInvestmentDate(when, r)
    \/ \E when \in Days, r \in {RZero, Rate15, Rate20} : PerPartGuarantee(when, r)

SpecGuarantee == Init /\ [][NextGuarantee]_vars

\* the price projection on every acquisition and target point
InitPrice ==
    /\ acq_date \in Days
    /\ acq_price \in Prices
    /\ contrib_df = [w \in WindowDates(acq_date) |-> Row(0, 0, 0)]
    /\ price_series = [q \in PriceDates |-> acq_price]
    /\ daily_invested = build_daily_invested(contrib_df, acq_date, acq_date)
    /\ call = [op |-> "build_daily_invested", end_date |-> acq_date]
    /\ ret = None
    /\ session_state = NewSession
    /\ secrets = NoSecrets
    /\ edits = 0

LinearPriceSeries(target_date, target_price) ==
    /\ ret' = linear_price_series(acq_date, acq_price, target_date, target_price)
    /\ call' = [op |-> "linear_price_series", target_date |-> target_date,
                target_price |-> target_price]
    /\ UNCHANGED <<Inputs, daily_invested>>

NextPrice == \E target_date \in Days, target_price \in Prices :
                LinearPriceSeries(target_date, target_price)

SpecPrice == InitPrice /\ [][NextPrice]_vars

\* the SALE rule and the EXIT rule side by side, on balances built through
\* the last day (end_for_invested covers the sell date and the price series)
InitEngine == Init /\ call.end_date = MaxDay

NextEngine ==
    \/ \E when \in Days, cdf \in ContribArgs : GainsAtDate(when, cdf)
    \/ \E when \in Days, cdf \in ContribArgs : ExitGainsAtDate(when, cdf)

SpecEngine == InitEngine /\ [][NextEngine]_vars

\* the four engine functions that are handed the caller's tables and series
NextFrame ==
    \/ \E e \in EndDates : BuildDailyInvested(e)
    \/ \E when \in Days : GainsAtDate(when, contrib_df)
    \/ \E when \in Days : ExitGainsAtDate(when, None)
    \/ \E when \in Days : PerPartGuaranteeByInvestmentDate(when, Rate15)

SpecFrame == InitEngine /\ [][NextFrame]_vars

\* ------------------------------------------- contributions editor (app.py)
\* The dashboard's calendar: three investment windows, the first historical,
\* the second the editable start, the third a later window.  Amounts are AED
\* units, display amounts are units of the selected currency.
INVESTMENT_DATES == {1, 2, 3}
\* date(2025, 9, 30) on the dashboard's calendar
EDITABLE_START == 2
\* fixed_date = date(2025, 9, 30) of the New investor view
FIXED_DATE == 2

Currencies == {"EUR", "USD", "AED"}
\* 3.6727 and 4.31371, taken to two decimals: the products of amounts and
\* rates stay within the integers TLC computes with
AED_PER_USD == <<367, 100>>
AED_PER_EUR == <<431, 100>>
CURRENCY_RATES ==
    ("AED" :> R(1)) @@ ("USD" :> RDiv(R(1), AED_PER_USD))
        @@ ("EUR" :> RDiv(R(1), AED_PER_EUR))

\* plan total of a window and Antoine's payment on the historical window, in
\* thousands of AED
PlanLot == 1188
\* base_contrib_df + DEFAULT_ANTOINE + ALDAR_PLAN, as main_app rebuilds it on
\* every run
BaseContrib ==
    [d \in INVESTMENT_DATES |->
        Row(IF d < EDITABLE_START THEN PlanLot ELSE 0, 0, PlanLot)]

\* deployments: with or without defaults for the signed-in investor (one of
\* them dated before the editable start), with or without a fixed rate for the
\* editable start
SecretsConfigs ==
    {[investor_defaults |-> dflt, fixed_rates |-> fr] :
        dflt \in {None, (1 :> 100) @@ (3 :> 100)},
        fr \in {<<>>, (2 :> [eur_to_aed |-> <<4, 1>>, usd_to_aed |-> <<37, 10>>])}}

\* amounts a user types into an input, in the selected currency
TypedAmounts == {0, 60}

\* the built-in round of a non-negative number: to the nearest integer, a half
\* to the even neighbour
Round(q) ==
    LET f == q[1] \div q[2]
        twice == 2 * (q[1] - f * q[2])
    IN  IF twice < q[2] THEN f
        ELSE IF twice > q[2] THEN f + 1
        ELSE IF f % 2 = 0 THEN f ELSE f + 1

get_currency_rate_for_date(date_key, currency) ==
    IF date_key \in DOMAIN secrets.fixed_rates THEN
        IF currency = "EUR" THEN RDiv(R(1), secrets.fixed_rates[date_key].eur_to_aed)
        ELSE IF currency = "USD"
             THEN RDiv(R(1), secrets.fixed_rates[date_key].usd_to_aed)
        ELSE R(1)
    ELSE CURRENCY_RATES[currency]

\* the stored contributions after initialize_investor_defaults: the defaults
\* of the signed-in investor overwrite what is stored for their dates
initialize_investor_defaults(stored) ==
    IF secrets.investor_defaults = None THEN stored
    ELSE [d \in DOMAIN stored \cup DOMAIN secrets.investor_defaults |->
            IF d \in DOMAIN secrets.investor_defaults
            THEN secrets.investor_defaults[d] ELSE stored[d]]

\* fault: every investment date is offered for editing
all_dates == INVESTMENT_DATES

\* [d for d in INVESTMENT_DATES if d >= EDITABLE_START]
editable_dates == {d \in INVESTMENT_DATES : d >= EDITABLE_START}

\* the New investor branch of section_contributions on session ss
NewInvestorView(ss) ==
    LET stored == initialize_investor_defaults(ss.new_investor_contributions)
        cur == ss.currency
        current_aed_value(d) ==
            IF d \in DOMAIN stored THEN stored[d] ELSE BaseContrib[d]["New investor"]
        rate(d) == get_currency_rate_for_date(d, cur)
        current_display_value(d) == Round(RMul(R(current_aed_value(d)), rate(d)))
        is_fixed(d) == d = FIXED_DATE
        \* a number_input keeps the value the user gave it for as long as it is
        \* rendered with the same key and the same default; else it shows its
        \* default
        amt(d) ==
            IF /\ <<d, cur>> \in DOMAIN ss.widgets
               /\ ss.widgets[<<d, cur>>].default = current_display_value(d)
            THEN ss.widgets[<<d, cur>>].value
            ELSE current_display_value(d)
        amt_aed(d) ==
            IF is_fixed(d) THEN current_aed_value(d)
            ELSE Round(RDiv(R(amt(d)), rate(d)))
    IN  [contrib_df |->
            [d \in INVESTMENT_DATES |->
                IF d \in editable_dates
                THEN [BaseContrib[d] EXCEPT !["New investor"] = amt_aed(d)]
                ELSE BaseContrib[d]],
         session_state |->
            [ss EXCEPT
                !.new_investor_contributions =
                    [d \in DOMAIN stored \cup editable_dates |->
                        IF d \in editable_dates THEN amt_aed(d) ELSE stored[d]],
                !.widgets =
                    [k \in {<<d, cur>> : d \in editable_dates} |->
                        [value |-> amt(k[1]),
                         default |-> current_display_value(k[1]),
                         disabled |-> is_fixed(k[1])]]],
         read |-> [d \in editable_dates |->
                     ("New investor" :> current_aed_value(d))],
         editable |-> {<<d, "New investor">> : d \in {e \in editable_dates : ~is_fixed(e)}}]

\* no cell edited in the data editor
NoEdit == <<>>

\* the admin branch of section_contributions on session ss; edit is the cell
\* <<date, column, amount>> the user has just changed in the data editor, or
\* NoEdit.  The editor shows the stored values in the selected currency and
\* returns them with the changed cell.
AdminView(ss, edit) ==
    LET edit_idx == editable_dates
        cur == ss.currency
        stored(d, col) ==
            IF d \in DOMAIN ss.admin_contributions
            THEN ss.admin_contributions[d][col] ELSE BaseContrib[d][col]
        rate(d) == get_currency_rate_for_date(d, cur)
        edited(d, col) ==
            IF edit # NoEdit /\ edit[1] = d /\ edit[2] = col THEN R(edit[3])
            ELSE RMul(R(stored(d, col)), rate(d))
        back(d, col) == Round(RDiv(edited(d, col), rate(d)))
    IN  [contrib_df |->
            [d \in INVESTMENT_DATES |->
                IF d \in edit_idx
                THEN [BaseContrib[d] EXCEPT !["Antoine"] = back(d, "Antoine"),
                                            !["New investor"] = back(d, "New investor")]
                ELSE BaseContrib[d]],
         session_state |->
            [ss EXCEPT
                !.admin_contributions =
                    [d \in DOMAIN ss.admin_contributions \cup edit_idx |->
                        IF d \in edit_idx
                        THEN ("Antoine" :> back(d, "Antoine"))
                                @@ ("New investor" :> back(d, "New investor"))
                        ELSE ss.admin_contributions[d]],
                !.widgets = <<>>],
         read |-> [d \in edit_idx |->
                     ("Antoine" :> stored(d, "Antoine"))
                        @@ ("New investor" :> stored(d, "New investor"))],
         editable |-> {<<d, col>> : d \in edit_idx, col \in {"Antoine", "New investor"}}]

section_contributions(selected_participant, ss, edit) ==
    IF selected_participant = "New investor" THEN NewInvestorView(ss)
    ELSE AdminView(ss, edit)

\* one run of the dashboard's home page for the given view: the table is
\* rebuilt, passed through section_contributions, and the balances are built
\* on what it returns
Run(selected_participant, ss, edit, edited) ==
    LET out == section_contributions(selected_participant, ss, edit)
    IN  /\ contrib_df' = out.contrib_df
        /\ session_state' = out.session_state
        /\ daily_invested' = build_daily_invested(out.contrib_df, acq_date, MaxDay)
        /\ call' = [op |-> "section_contributions",
                    selected_participant |-> selected_participant,
                    currency |-> ss.currency,
                    edited |-> edited,
                    read |-> out.read,
                    editable |-> out.editable]
        /\ ret' = out.contrib_df
        /\ edits' = IF edited THEN edits + 1 ELSE edits
        /\ UNCHANGED <<price_series, acq_date, acq_price, secrets>>

\* views: an investor sees the New investor view, an admin chooses
Views == {"New investor", "Antoine"}

InitApp ==
    /\ acq_date \in AcqDates
    /\ acq_price \in AcqPrices
    /\ price_series = [q \in PriceDates |-> acq_price]
    /\ contrib_df = BaseContrib
    /\ daily_invested = build_daily_invested(contrib_df, acq_date, MaxDay)
    /\ call = [op |-> "build_daily_invested", end_date |-> MaxDay]
    /\ ret = None
    /\ session_state = NewSession
    /\ secrets \in SecretsConfigs
    /\ edits = 0

\* a rerun without any input of the user
Rerun(selected_participant) ==
    /\ selected_participant \in Views
    /\ Run(selected_participant, session_state, NoEdit, FALSE)

\* the user picks a display currency in the app bar; the page reruns
SelectCurrency(currency, selected_participant) ==
    /\ currency \in Currencies
    /\ Run(selected_participant, [session_state EXCEPT !.currency = currency],
           NoEdit, FALSE)

\* the user types an amount into an enabled number input of the New investor
\* view; the page reruns
EditNumberInput(d, amount) ==
    LET key == <<d, session_state.currency>>
    IN  /\ edits < MaxEdits
        /\ key \in DOMAIN session_state.widgets
        /\ ~session_state.widgets[key].disabled
        /\ Run("New investor",
               [session_state EXCEPT !.widgets[key].value = amount],
               NoEdit, TRUE)

\* the admin changes a cell of the data editor; the page reruns
EditDataEditor(d, col, amount) ==
    /\ edits < MaxEdits
    /\ call.op = "section_contributions"
    /\ call.selected_participant # "New investor"
    /\ <<d, col>> \in call.editable
    /\ Run(call.selected_participant, session_state, <<d, col, amount>>, TRUE)

NextApp ==
    \/ \E v \in Views : Rerun(v)
    \/ \E c \in Currencies, v \in Views : SelectCurrency(c, v)
    \/ \E d \in INVESTMENT_DATES, a \in TypedAmounts : EditNumberInput(d, a)
    \/ \E d \in INVESTMENT_DATES, col \in {"Antoine", "New investor"},
          a \in TypedAmounts : EditDataEditor(d, col, a)

SpecApp == InitApp /\ [][NextApp]_vars

\* ------------------------------------------------ malformed price series
\* An external price table that lacks one of its two fields: prices without
\* dates, or dates without prices.  The engine declares no error of its own and
\* checks nothing: it uses the series where the computation first needs it.
MalformedSeries ==
    {[price |-> [i \in 1..2 |-> p]] : p \in Prices} \cup {[date |-> PriceDates]}

\* float("nan")
NaN == <<0, 0>>

\* gains_at_date on a malformed series: at or before the acquisition date the
\* zeros are returned before the series is read; after it the series reaches
\* pandas, which raises an error of its own or yields not-a-number amounts
gains_at_date_malformed(when, acq) ==
    IF AtOrBeforeAcquisition(when, acq)
    THEN {[k \in Participants |-> GainBreakdown(RZero, RZero, RZero)]}
    ELSE {[raised |-> "TypeError"], [raised |-> "ValueError"],
          [k \in Participants |-> GainBreakdown(NaN, NaN, NaN)]}

InitMalformed ==
    /\ acq_date \in AcqDates
    /\ acq_price \in AcqPrices
    /\ contrib_df \in ContribTables(acq_date)
    /\ price_series \in MalformedSeries
    /\ daily_invested = build_daily_invested(contrib_df, acq_date, MaxDay)
    /\ call = [op |-> "build_daily_invested", end_date |-> MaxDay]
    /\ ret = None
    /\ session_state = NewSession
    /\ secrets = NoSecrets
    /\ edits = 0

GainsAtDateMalformed(when) ==
    /\ price_series \in MalformedSeries
    /\ ret' \in gains_at_date_malformed(when, acq_date)
    /\ call' = [op |-> "gains_at_date", when |-> when, contrib_df |-> contrib_df]
    /\ UNCHANGED <<Inputs, daily_invested>>

NextMalformed == \E when \in Days : GainsAtDateMalformed(when)

SpecMalformed == InitMalformed /\ [][NextMalformed]_vars

\* ------------------------------------------------- the portal (app.py run)
\* The session is a function from the keys that are set to their values; the
\* deployment's secrets hold the users and the two feature allowlists.
\* Calendar of the portal: the price projection runs from the acquisition date
\* to TARGET_DATE; the selectable sell dates end after it, as 2028-09-30 does.
TARGET_DATE == 4
TARGET_PRICE == 2
\* INVESTMENT_DATES[3:], the sell / exit dates offered
base_options == <<3, 4, 5>>

Emails == {"ann", "bob", "eve"}
Passwords == {"pa", "pb"}
Roles == {"investor", "admin", "Admin"}

\* deployments: no users configured, or ann (an administrator, in either
\* spelling of the role) and bob (an investor); allowlists absent or present
\* (a key that is absent from features raises KeyError when it is read)
PortalSecrets ==
    {[users |-> u, features |-> g @@ e] :
        u \in {<<>>} \cup
              {<<[email |-> "ann", password |-> "pa", role |-> r],
                 [email |-> "bob", password |-> "pb", role |-> "investor"]>> :
                    r \in {"admin", "Admin"}},
        g \in {<<>>} \cup {"gains_allowed_users" :> a : a \in {{}, {"bob"}}},
        e \in {<<>>, "earliest_sell_date_allowed_users" :> {"bob"}}}

Get(ss, key, default) == IF key \in DOMAIN ss THEN ss[key] ELSE default

\* {user["email"]: user["password"] for user in users}: a later entry of an
\* email replaces an earlier one; {} when not configured
get_users_from_secrets ==
    IF secrets.users = <<>> THEN <<>>
    ELSE [e \in {secrets.users[i].email : i \in DOMAIN secrets.users} |->
            secrets.users[SetMax({i \in DOMAIN secrets.users :
                                    secrets.users[i].email = e})].password]

\* the role of the first entry with the email, "investor" otherwise
get_user_role(email) ==
    IF secrets.users = <<>> THEN "investor"
    ELSE LET hits == {i \in DOMAIN secrets.users : secrets.users[i].email = email}
         IN  IF hits = {} THEN "investor" ELSE secrets.users[SetMin(hits)].role

\* fault: the password is not compared
CredentialsKnownEmail(USERS, email, pw) == email \in DOMAIN USERS

\* email in USERS and USERS[email] == pw
CredentialsMatch(USERS, email, pw) == email \in DOMAIN USERS /\ USERS[email] = pw

can_see_earliest_sell_date(ss, email) ==
    IF Get(ss, "role", None) = "Admin" THEN TRUE
    ELSE IF "earliest_sell_date_allowed_users" \notin DOMAIN secrets.features THEN FALSE
    ELSE email \in secrets.features["earliest_sell_date_allowed_users"]

can_see_gains(ss, email) ==
    IF Get(ss, "role", None) = "Admin" THEN TRUE
    ELSE IF "gains_allowed_users" \notin DOMAIN secrets.features THEN TRUE
    ELSE email \in secrets.features["gains_allowed_users"]

\* the sell dates the selector of render_performance offers
date_options(ss) ==
    IF ~can_see_earliest_sell_date(ss, Get(ss, "user", "")) /\ Len(base_options) > 1
    THEN Tail(base_options) ELSE base_options

Range(seq) == {seq[i] : i \in DOMAIN seq}

\* the performance section: the two cards and what the selector leaves in the
\* session
render_performance(selected_participant, ps, sell_date, daily, cdf, today, ss) ==
    LET results_today == gains_at_date(today, acq_date, acq_price, ps, daily, cdf)
        results_sell == gains_at_date(sell_date, acq_date, acq_price, ps, daily, cdf)
        results_exit == exit_gains_at_date(sell_date, acq_date, acq_price, ps, daily, cdf)
        show_gains == can_see_gains(ss, Get(ss, "user", ""))
        options == date_options(ss)
    IN  [gains_today |->
            IF show_gains
            THEN [estimated |-> results_today[selected_participant].final,
                  guaranteed |-> results_today[selected_participant].guarantee]
            ELSE [text |-> "No investment yet"],
         gains_at |->
            [estimated |-> results_sell[selected_participant].final,
             guaranteed |-> results_exit.amounts[selected_participant],
             rate |-> results_exit.rate_annual],
         scenario_main |->
            IF "scenario_main" \in DOMAIN ss /\ ss["scenario_main"] \in Range(options)
            THEN ss["scenario_main"] ELSE Head(options)]

\* the sell date main_app works with: the selector's, or the default
sell_date_of(ss) ==
    IF "scenario_main" \in DOMAIN ss THEN ss["scenario_main"]
    ELSE IF ~can_see_earliest_sell_date(ss, Get(ss, "user", "")) /\ Len(base_options) > 1
         THEN base_options[2] ELSE base_options[1]

\* the last day main_app builds the daily balances for
end_for_invested(ss, ps) == Max(sell_date_of(ss), SetMax(DOMAIN ps))

\* main_app on session ss (a user is signed in), on the day today, for the view
\* the administrator has chosen, with the price series and the daily balances
\* it has built: what it shows.  The table is the base table; what the
\* contributions editor makes of it is SpecApp's matter.
main_app(ss, today, view_as, ps, daily) ==
    LET is_admin == Get(ss, "role", None) = "Admin"
        selected_participant == IF is_admin THEN view_as ELSE "New investor"
    IN  \E cards \in {render_performance(selected_participant, ps, sell_date_of(ss),
                                         daily, BaseContrib, today, ss)} :
            /\ ret' = [page |-> "main_app", today |-> today, is_admin |-> is_admin,
                       selected_participant |-> selected_participant,
                       sell_date |-> sell_date_of(ss),
                       gains_today |-> cards.gains_today, gains_at |-> cards.gains_at]
            /\ session_state' = [k \in DOMAIN ss \cup {"scenario_main"} |->
                                   IF k = "scenario_main" THEN cards.scenario_main
                                   ELSE ss[k]]

\* run() on session ss, as the handler op left it: the login page without a
\* user, main_app with one
run(op, ss, today, view_as) ==
    LET ss1 == IF "admin_authed" \in DOMAIN ss THEN ss
               ELSE [k \in DOMAIN ss \cup {"admin_authed"} |->
                       IF k = "admin_authed" THEN FALSE ELSE ss[k]]
    IN  /\ call' = op
        /\ UNCHANGED <<contrib_df, acq_date, acq_price, secrets, edits>>
        /\ IF "user" \notin DOMAIN ss1
           THEN /\ session_state' = ss1
                /\ ret' = [page |-> "login_page", today |-> today]
                /\ UNCHANGED <<price_series, daily_invested>>
           ELSE /\ price_series' = (acq_date :> acq_price) @@ (TARGET_DATE :> TARGET_PRICE)
                /\ daily_invested' = build_daily_invested(BaseContrib, acq_date,
                                         end_for_invested(ss1, price_series'))
                /\ main_app(ss1, today, view_as, price_series', daily_invested')

ViewAs == {"New investor", "Antoine", "Other investors"}

\* the days a page is loaded on: inside the projection, and after its end
Todays == {acq_date + 1, MaxDay}

\* the views the "View as" selector offers; it is drawn for administrators only
Selectable(ss) == IF Get(ss, "role", None) = "Admin" THEN ViewAs ELSE {"New investor"}

InitPortal ==
    /\ acq_date \in AcqDates
    /\ acq_price \in AcqPrices
    /\ price_series = (acq_date :> acq_price) @@ (TARGET_DATE :> TARGET_PRICE)
    /\ contrib_df = BaseContrib
    /\ daily_invested = build_daily_invested(contrib_df, acq_date, MaxDay)
    /\ call = [op |-> "build_daily_invested", end_date |-> MaxDay]
    /\ ret = None
    /\ session_state = <<>>
    /\ secrets \in PortalSecrets
    /\ edits = 0

\* the page is loaded or reruns
PageRun(today, view_as) ==
    /\ view_as \in Selectable(session_state)
    /\ run([op |-> "run"], session_state, today, view_as)

\* Sign in is pressed on the login page
SignIn(email, pw, today, view_as) ==
    /\ "user" \notin DOMAIN session_state
    /\ LET USERS == get_users_from_secrets
           user_role == get_user_role(email)
           signed == ("user" :> email) @@ ("role" :> user_role)
                        @@ ("admin_authed" :> (user_role = "admin"))
                        @@ session_state @@ ("admin_authed" :> FALSE)
       IN  run([op |-> "sign_in", email |-> email, password |-> pw],
               IF CredentialsMatch(USERS, email, pw) THEN signed ELSE session_state,
               today, view_as)

\* Log out is pressed in the app bar: the session is cleared, the page reruns
LogOut(today, view_as) ==
    /\ "user" \in DOMAIN session_state
    /\ run([op |-> "log_out"], <<>>, today, view_as)

\* a sell date is picked in the selector of the performance section
SelectScenario(d, today, view_as) ==
    /\ "user" \in DOMAIN session_state
    /\ d \in Range(date_options(session_state))
    /\ run([op |-> "select_scenario", date |-> d],
           [k \in DOMAIN session_state \cup {"scenario_main"} |->
              IF k = "scenario_main" THEN d ELSE session_state[k]],
           today, view_as)

NextPortal ==
    \/ \E today \in Todays, v \in Selectable(session_state) : PageRun(today, v)
    \/ \E e \in Emails, pw \in Passwords, today \in Todays :
          \E v \in Selectable("role" :> get_user_role(e)) : SignIn(e, pw, today, v)
    \/ \E today \in Todays : LogOut(today, "New investor")
    \/ \E d \in Range(base_options), today \in Todays, v \in Selectable(session_state) :
          SelectScenario(d, today, v)

SpecPortal == InitPortal /\ [][NextPortal]_vars
\* ============================================================ properties
\* The last call, as the properties read it.
IsSale == call.op = "gains_at_date"
IsExit == call.op = "exit_gains_at_date"
IsPerEvent == call.op = "per_part_guarantee_by_investment_date"
WithTable == call.contrib_df # None

\* price(when): the price the series gives for the evaluation date
PriceAt(when) == _ensure_on_series(price_series, when, acq_date)[when]

\* max(price(when) - acq_price, 0)
TotalAppreciationAt(when) == RMax(RSub(PriceAt(when), R(acq_price)), RZero)

\* a participant's contribution on window w of the contribution table
Contribution(k, w) ==
    IF k = "Other investors"
    THEN Max(contrib_df[w]["Total plan"] - contrib_df[w]["Antoine"]
                - contrib_df[w]["New investor"], 0)
    ELSE contrib_df[w][k]

RECURSIVE AmountDays(_, _, _)
\* sum over the windows W of amount * (days from the window to when)
AmountDays(k, W, when) ==
    IF W = {} THEN 0
    ELSE LET w == CHOOSE x \in W : TRUE
         IN  Contribution(k, w) * (when - w) + AmountDays(k, W \ {w}, when)

\* sum over the events dated strictly before when of amount * rate * days / 365
PerEventAccrual(k, when, rate) ==
    Norm(rate[1] * AmountDays(k, {w \in DOMAIN contrib_df : w < when}, when),
         rate[2] * 365)

RECURSIVE Balance(_, _, _)
\* a participant's balance on day d: the contributions of the windows W dated <= d
Balance(k, W, d) ==
    IF W = {} THEN 0
    ELSE LET w == CHOOSE x \in W : TRUE
         IN  (IF w <= d THEN Contribution(k, w) ELSE 0) + Balance(k, W \ {w}, d)

BalanceOn(k, d) == Balance(k, DOMAIN contrib_df, d)
TotalOn(d) == BalanceOn("Antoine", d) + BalanceOn("New investor", d)
                 + BalanceOn("Other investors", d)

\* column c of the daily balance table on day d; past the table's last day the
\* last balance stands
DailyBalance(c, d) ==
    IF d \in DOMAIN daily_invested THEN daily_invested[d][c]
    ELSE daily_invested[SetMax(DOMAIN daily_invested)][c]

RECURSIVE DailyShares(_, _)
\* sum over the days D of balance[k](d) / Total(d), 0 where Total(d) = 0
DailyShares(k, D) ==
    IF D = {} THEN RZero
    ELSE LET d == CHOOSE x \in D : TRUE
         IN  RAdd(IF DailyBalance("Total", d) = 0 THEN RZero
                  ELSE Norm(DailyBalance(k, d), DailyBalance("Total", d)),
                  DailyShares(k, D \ {d}))

Sum3(f) == RAdd(RAdd(f["Antoine"], f["New investor"]), f["Other investors"])
Finals == [k \in Participants |-> ret[k].final]

\* C1: SALE reconciliation.  For every evaluation date after the acquisition
\* date, the three final amounts gains_at_date returns sum to
\* max(price(when) - acq_price, 0).
C1_SaleReconciliation ==
    (IsSale /\ call.when > acq_date)
        => Sum3(Finals) = TotalAppreciationAt(call.when)

\* C1 case: appreciation is positive, both other participants are paid, and
\* the residual leaves Antoine less than his own appreciation share.
C1_Witness ==
    /\ IsSale /\ call.when > acq_date
    /\ RLt(RZero, TotalAppreciationAt(call.when))
    /\ RLt(RZero, ret["New investor"].final)
    /\ RLt(RZero, ret["Other investors"].final)
    /\ RLt(ret["Antoine"].final, ret["Antoine"].appreciation)

\* C2: EXIT reconciliation.  For every evaluation date, the three amounts
\* exit_gains_at_date returns sum to max(price(when) - acq_price, 0), at
\* either rate.
C2_ExitReconciliation ==
    IsExit => Sum3(ret.amounts) = TotalAppreciationAt(call.when)

\* C2 case: appreciation is positive and both guarantees are paid.
C2_Witness ==
    /\ IsExit
    /\ RLt(RZero, TotalAppreciationAt(call.when))
    /\ RLt(RZero, ret.amounts["New investor"])
    /\ RLt(RZero, ret.amounts["Other investors"])

C4_ExitRateBoundary ==
    IsExit =>
        /\ (call.when >= EXIT_RATE_CUTOFF => ret.rate_annual = <<1, 5>>)
        /\ (call.when < EXIT_RATE_CUTOFF => ret.rate_annual = <<3, 20>>)
        /\ \A k \in Others :
              ret.amounts[k] =
                 IF WithTable
                 THEN PerEventAccrual(k, call.when, ret.rate_annual)
                 ELSE per_part_guarantee(call.when, acq_date, daily_invested,
                                         ret.rate_annual)[k]

\* C4 case: an exit on the cutoff date itself, with a guarantee to pay.
C4_Witness ==
    /\ IsExit /\ call.when = EXIT_RATE_CUTOFF
    /\ ret.rate_annual = <<1, 5>>
    /\ RLt(RZero, ret.amounts["New investor"])

\* C5: per-event guarantee accrual.  per_part_guarantee_by_investment_date
\* returns, for each participant, the sum over the contribution events dated
\* strictly before when of amount * rate * days / 365, without compounding;
\* events dated on or after when add nothing.
C5_PerEventAccrual ==
    IsPerEvent =>
        \A k \in Participants :
            ret[k] = PerEventAccrual(k, call.when, call.rate_annual)

\* C5 case: New investor contributed on both windows and the check date is the
\* second window: only the first contribution accrues.
C5_Witness ==
    /\ IsPerEvent
    /\ call.when = SetMax(DOMAIN contrib_df)
    /\ \A w \in DOMAIN contrib_df : contrib_df[w]["New investor"] > 0
    /\ RLt(RZero, ret["New investor"])

\* C6: the guarantee amounts of the SALE rule and of the EXIT rule are always
\* the per-contribution-event accrual, however the two functions are called,
\* also without a contribution table.
C6_AlwaysPerEvent ==
    /\ (IsSale /\ call.when > acq_date)
          => \A k \in Others :
                ret[k].guarantee = PerEventAccrual(k, call.when, <<15, 100>>)
    /\ IsExit
          => \A k \in Others :
                ret.amounts[k] = PerEventAccrual(k, call.when, ret.rate_annual)

\* C7: SALE appreciation-based amount.  For when after the acquisition date,
\* each participant's appreciation-based amount is daily_appreciation times
\* the sum over every day d of (acq_date, when] of balance(d) / Total(d) (0
\* where Total(d) = 0), the balances being those of the daily balance table,
\* with daily_appreciation = max(price(when) - acq_price, 0) / days(acq_date, when).
C7_TimeWeightedAppreciation ==
    (IsSale /\ call.when > acq_date) =>
        \A k \in Participants :
            ret[k].appreciation =
                RMul(RDiv(TotalAppreciationAt(call.when), R(call.when - acq_date)),
                     DailyShares(k, (acq_date + 1)..call.when))

\* C7 case: New investor joins on the second window only; the time-weighted
\* amount is positive and differs from the end-of-period ratio.
C7_Witness ==
    /\ IsSale /\ call.when > SetMax(DOMAIN contrib_df)
    /\ contrib_df[acq_date]["New investor"] = 0
    /\ RLt(RZero, ret["New investor"].appreciation)
    /\ ret["New investor"].appreciation #
          RMul(TotalAppreciationAt(call.when),
               Norm(DailyBalance("New investor", call.when),
                    DailyBalance("Total", call.when)))

\* C8: EXIT pays pure guarantee.  New investor and Other investors receive
\* exactly their guarantee accrual at the selected rate, whatever the price;
\* Antoine receives total_appreciation minus those two amounts, which is
\* negative whenever the guarantees exceed total appreciation.
C8_ExitPureGuarantee ==
    IsExit =>
        LET others_sum == RAdd(ret.amounts["New investor"],
                               ret.amounts["Other investors"])
        IN  /\ WithTable =>
                  \A k \in Others :
                      ret.amounts[k] = PerEventAccrual(k, call.when, ret.rate_annual)
            /\ ret.amounts["Antoine"] = RSub(TotalAppreciationAt(call.when), others_sum)
            /\ RLt(TotalAppreciationAt(call.when), others_sum)
                  => RLt(ret.amounts["Antoine"], RZero)

\* C8 case: both guarantees are paid, together they exceed total appreciation,
\* and Antoine's amount is negative.
C8_Witness ==
    /\ IsExit /\ WithTable
    /\ RLt(RZero, ret.amounts["New investor"])
    /\ RLt(RZero, ret.amounts["Other investors"])
    /\ RLt(TotalAppreciationAt(call.when),
           RAdd(ret.amounts["New investor"], ret.amounts["Other investors"]))
    /\ RLt(ret.amounts["Antoine"], RZero)

\* C9: SALE at or before acquisition.  For every when <= acq_date,
\* gains_at_date returns appreciation 0, guarantee 0 and final 0 for all three
\* participants.
C9_SaleZeroBeforeAcquisition ==
    (IsSale /\ call.when <= acq_date) =>
        \A k \in Participants :
            ret[k] = [appreciation |-> RZero, guarantee |-> RZero, final |-> RZero]

\* C9 case: a sale evaluated on the acquisition date while the series prices
\* that date above the acquisition price and capital is already committed.
C9_Witness ==
    /\ IsSale /\ call.when = acq_date
    /\ RLt(R(acq_price), PriceAt(call.when))
    /\ TotalOn(acq_date) > 0

\* C10: EXIT zero horizon.  exit_gains_at_date evaluated at when = acq_date, or
\* before it, returns amount 0 for all three participants.
C10_ExitZeroHorizon ==
    (IsExit /\ call.when <= acq_date) =>
        \A k \in Participants : ret.amounts[k] = RZero

\* the last call built the daily balances
IsBuild == call.op = "build_daily_invested"

\* what a participant's daily balance gains on day d over the day before
Increment(k, d) ==
    daily_invested[d][k]
       - (IF (d - 1) \in DOMAIN daily_invested THEN daily_invested[d - 1][k] ELSE 0)

\* C11: derived third participant.  On every window the contribution the engine
\* gives Other investors is max(Total plan - Antoine - New investor, 0), never
\* negative: it is what the Other investors balance of build_daily_invested
\* gains on the window's day, and what per_part_guarantee_by_investment_date
\* accrues the Other investors guarantee on.
C11_DerivedResidual ==
    /\ \A d \in DOMAIN daily_invested :
          /\ Increment("Other investors", d) >= 0
          /\ Increment("Other investors", d) =
                (IF d \in DOMAIN contrib_df
                 THEN Max(contrib_df[d]["Total plan"] - contrib_df[d]["Antoine"]
                             - contrib_df[d]["New investor"], 0)
                 ELSE 0)
    /\ IsPerEvent =>
          /\ RLeq(RZero, ret["Other investors"])
          /\ ret["Other investors"] =
                PerEventAccrual("Other investors", call.when, call.rate_annual)

\* C11 case: one window is over-subscribed (the named participants put in more
\* than the plan asks), another leaves a positive residual, and the guarantee
\* of Other investors has accrued on the latter alone.
C11_Witness ==
    /\ IsPerEvent
    /\ \E w \in DOMAIN contrib_df :
          /\ w < call.when
          /\ contrib_df[w]["Antoine"] + contrib_df[w]["New investor"]
                > contrib_df[w]["Total plan"]
    /\ \E w \in DOMAIN contrib_df :
          /\ w < call.when
          /\ contrib_df[w]["Antoine"] + contrib_df[w]["New investor"]
                < contrib_df[w]["Total plan"]
    /\ RLt(RZero, ret["Other investors"])
    /\ \E d \in DOMAIN daily_invested \cap DOMAIN contrib_df :
          /\ contrib_df[d]["Antoine"] + contrib_df[d]["New investor"]
                > contrib_df[d]["Total plan"]
          /\ Increment("Other investors", d) = 0

\* C12: daily totals.  In the table build_daily_invested returns, on every day
\* d from acq_date to end_date each participant's balance is the sum of that
\* participant's contributions dated on or before d, and Total(d) is the sum
\* of the contributions of all three participants dated on or before d.
C12_DailyTotals ==
    IsBuild =>
        /\ DOMAIN daily_invested = acq_date..call.end_date
        /\ \A d \in acq_date..call.end_date :
              /\ \A k \in Participants : daily_invested[d][k] = BalanceOn(k, d)
              /\ daily_invested[d]["Total"] = TotalOn(d)

\* C12 case: Other investors fund the first window, the two named participants
\* the second, and the table covers both windows.
C12_Witness ==
    /\ IsBuild
    /\ call.end_date = MaxDay
    /\ Contribution("Other investors", acq_date) > 0
    /\ \E w \in DOMAIN contrib_df :
          /\ w > acq_date
          /\ Contribution("Antoine", w) > 0
          /\ Contribution("New investor", w) > 0
          /\ daily_invested[w]["Total"] > daily_invested[w - 1]["Total"]
          /\ daily_invested[w - 1]["Total"] > 0

\* C13: monotone balances.  With non-negative contributions of the named
\* participants, every participant column and the Total column of the table
\* build_daily_invested returns never decrease from one day to a later day.
C13_MonotoneBalances ==
    IsBuild =>
        \A d1, d2 \in DOMAIN daily_invested :
            d1 <= d2 =>
                \A c \in Participants \cup {"Total"} :
                    daily_invested[d1][c] <= daily_invested[d2][c]

\* C13 case: a balance stands unchanged over days without a contribution and
\* rises on a later window.
C13_Witness ==
    /\ IsBuild
    /\ \E d1, d2, d3 \in DOMAIN daily_invested :
          /\ d1 < d2 /\ d2 < d3
          /\ daily_invested[d1]["New investor"] > 0
          /\ daily_invested[d1]["New investor"] = daily_invested[d2]["New investor"]
          /\ daily_invested[d2]["New investor"] < daily_invested[d3]["New investor"]

\* New investor puts in nothing and the plan total is Antoine's contribution,
\* on every window
AntoineAlone ==
    \A w \in DOMAIN contrib_df :
        /\ contrib_df[w]["New investor"] = 0
        /\ contrib_df[w]["Total plan"] = contrib_df[w]["Antoine"]

\* C14: controlling party alone.  When New investor contributes nothing on
\* every window and the plan total equals Antoine's contribution on every
\* window, then for every when > acq_date gains_at_date gives New investor and
\* Other investors appreciation 0, guarantee 0 and final 0, and Antoine's
\* final is the full total appreciation.
C14_ControllingPartyAlone ==
    (IsSale /\ call.when > acq_date /\ AntoineAlone) =>
        /\ \A k \in Others :
              ret[k] = [appreciation |-> RZero, guarantee |-> RZero, final |-> RZero]
        /\ ret["Antoine"].final = TotalAppreciationAt(call.when)

\* C14 case: Antoine alone has funded the plan, the price has risen, and
\* Antoine receives all of the appreciation.
C14_Witness ==
    /\ IsSale /\ call.when > acq_date /\ AntoineAlone /\ WithTable
    /\ contrib_df[acq_date]["Antoine"] > 0
    /\ RLt(RZero, TotalAppreciationAt(call.when))
    /\ ret["Antoine"].final = ret["Antoine"].appreciation
    /\ RLt(RZero, ret["Antoine"].final)

IsProjection == call.op = "linear_price_series"

\* C15: price projection.  For target_date > acq_date, linear_price_series
\* returns one price for every calendar day from acq_date to target_date
\* inclusive, price(t) = acq_price + (t - acq_date) / (target_date - acq_date)
\* * (target_price - acq_price); the first is acq_price, the last target_price.
C15_LinearProjection ==
    (IsProjection /\ call.target_date > acq_date) =>
        /\ DOMAIN ret = acq_date..call.target_date
        /\ \A t \in acq_date..call.target_date :
              ret[t] = Norm(acq_price * (call.target_date - acq_date)
                               + (t - acq_date) * (call.target_price - acq_price),
                            call.target_date - acq_date)
        /\ ret[acq_date] = R(acq_price)
        /\ ret[call.target_date] = R(call.target_price)

\* C15 case: a projection over three days or more to a different price, with a
\* price strictly between the two ends on a day in between.
C15_Witness ==
    /\ IsProjection
    /\ call.target_date >= acq_date + 3
    /\ call.target_price > acq_price
    /\ \E t \in DOMAIN ret :
          /\ RLt(R(acq_price), ret[t])
          /\ RLt(ret[t], R(call.target_price))
          /\ ret[t][2] # 1

\* the last date the price series quotes
LastQuoteDate == SetMax(DOMAIN price_series)

\* the total appreciation a SALE or EXIT result distributes
Distributed == IF IsSale THEN Sum3(Finals) ELSE Sum3(ret.amounts)

\* C16: flat extension.  When the evaluation date passed to gains_at_date or
\* exit_gains_at_date falls after the last date of the price series, the price
\* used is the last known price: the total appreciation distributed is the one
\* of the series' last date, max(last price - acq_price, 0).
C16_FlatExtension ==
    ((IsSale \/ IsExit) /\ call.when > LastQuoteDate /\ call.when > acq_date) =>
        /\ PriceAt(call.when) = R(price_series[LastQuoteDate])
        /\ Distributed = RMax(RSub(R(price_series[LastQuoteDate]), R(acq_price)), RZero)
        /\ Distributed = TotalAppreciationAt(LastQuoteDate)

\* C16 case: the series was still rising at its last quote, above the
\* acquisition price, and the evaluation date lies after it.
C16_Witness ==
    /\ IsExit
    /\ call.when > LastQuoteDate
    /\ price_series[LastQuoteDate] > acq_price
    /\ \E q \in DOMAIN price_series :
          q < LastQuoteDate /\ price_series[q] < price_series[LastQuoteDate]
    /\ Distributed = R(price_series[LastQuoteDate] - acq_price)

\* the windows where the named participants put in more than the plan total
OverContributed ==
    {w \in DOMAIN contrib_df :
        contrib_df[w]["Antoine"] + contrib_df[w]["New investor"]
            > contrib_df[w]["Total plan"]}

\* C18: over-contribution warning.  Whenever Antoine + New investor exceeds
\* the plan total on some window, the residual of that window is clamped to
\* zero and a warning is surfaced from which the caller can enumerate every
\* offending date.
C18_OverContributionWarning ==
    (IsBuild \/ IsPerEvent) =>
        /\ \A w \in OverContributed \cap DOMAIN daily_invested :
              Increment("Other investors", w) = 0
        /\ OverContributed \subseteq OverContributionWarnings(contrib_df)

IsContributions == call.op = "section_contributions"

IsNewInvestorView == call.selected_participant = "New investor"

\* the dates on which the rendered section lets the user change an amount
EditableDates == {cell[1] : cell \in call.editable}

\* every contribution dated before the editable start has its historical value
HistoricalStand ==
    \A d \in INVESTMENT_DATES : d < EDITABLE_START => contrib_df[d] = BaseContrib[d]

C20_CurrencyNeutral ==
    (IsContributions /\ ~call.edited) =>
        \A d \in DOMAIN call.read : \A col \in DOMAIN call.read[d] :
            /\ contrib_df[d][col] = call.read[d][col]
            /\ IF IsNewInvestorView
               THEN session_state.new_investor_contributions[d] = call.read[d][col]
               ELSE session_state.admin_contributions[d][col] = call.read[d][col]

\* C21: malformed price input.  Supplying a price series that lacks the date or
\* the price field fails with a MalformedInputError before any allocation is
\* computed; no numeric result is produced from such a series.
C21_MalformedInputFails ==
    (IsSale /\ price_series \in MalformedSeries) =>
        /\ "raised" \in DOMAIN ret
        /\ ret.raised = "MalformedInputError"

\* a page of the portal has been rendered, and it is the dashboard
IsMainApp == "page" \in DOMAIN ret /\ ret.page = "main_app"

\* a page of the portal has been rendered, and it is the login page
IsLoginPage == "page" \in DOMAIN ret /\ ret.page = "login_page"

\* C22: balance horizon.  The daily balances main_app builds and hands to the
\* allocation engine run to a last day that is not before today, not before the
\* chosen sell / exit date and not before the last day of the price series,
\* whatever day the page is loaded on.
C22_BalanceHorizon ==
    IsMainApp =>
        LET end_date == SetMax(DOMAIN daily_invested)
        IN  /\ end_date >= ret.today
            /\ end_date >= ret.sell_date
            /\ end_date >= SetMax(DOMAIN price_series)

\* the days after the acquisition date up to the evaluation date of the call
EvaluatedDays == (acq_date + 1)..call.when

\* the evaluated days on which somebody holds a balance
FundedDays == {d \in EvaluatedDays : DailyBalance("Total", d) # 0}

\* C23: days without capital.  On a day whose Total is 0, gains_at_date takes
\* every participant's share as 0: each appreciation amount is the daily
\* appreciation times the shares of the funded days alone, and is a number.
\* When nobody holds a balance on any evaluated day, the three appreciation
\* amounts are 0 and a result is returned.
C23_ZeroTotalDays ==
    (IsSale /\ call.when > acq_date) =>
        LET daily_app == RDiv(TotalAppreciationAt(call.when), R(call.when - acq_date))
        IN  /\ DOMAIN ret = Participants
            /\ \A k \in Participants :
                  /\ ret[k].appreciation[2] # 0
                  /\ ret[k].appreciation = RMul(DailyShares(k, FundedDays), daily_app)
            /\ FundedDays = {} =>
                  \A k \in Participants : ret[k].appreciation = RZero

\* the property rose, nobody ever invested, and the call returned zeros
C23_Witness ==
    /\ IsSale
    /\ call.when > acq_date + 1
    /\ RLt(RZero, TotalAppreciationAt(call.when))
    /\ FundedDays = {}
    /\ \A k \in Participants : ret[k].appreciation = RZero

\* C24: arguments are left alone.  A call of build_daily_invested,
\* gains_at_date, exit_gains_at_date or per_part_guarantee_by_investment_date
\* leaves the caller's contribution table and price series as they were (no
\* "Other investors" column added, no date added to the series), and the three
\* that read the daily balance table leave that table as it was.
C24_ArgumentsUnchanged ==
    [][/\ call'.op \in {"build_daily_invested", "gains_at_date", "exit_gains_at_date",
                        "per_part_guarantee_by_investment_date"}
          => /\ contrib_df' = contrib_df
             /\ price_series' = price_series
             /\ "Other investors" \notin Columns(contrib_df')
             /\ DOMAIN price_series' = PriceDates
       /\ call'.op \in {"gains_at_date", "exit_gains_at_date",
                        "per_part_guarantee_by_investment_date"}
          => daily_invested' = daily_invested]_vars

\* a SALE evaluation on a date the series does not quote, with a residual
\* investor whose guarantee is positive: the series was extended and the
\* residual column computed, on copies
C24_Witness ==
    /\ IsSale
    /\ WithTable
    /\ call.when > acq_date
    /\ call.when \notin DOMAIN price_series
    /\ RLt(RZero, ret["Other investors"].guarantee)
    /\ "Other investors" \notin Columns(contrib_df)

\* the signed-in user of the session, "" without one
SessionUser == Get(session_state, "user", "")

\* the cards of the performance section that show an amount
CardsWithAmounts ==
    {c \in {"gains_today", "gains_at"} :
        {"estimated", "guaranteed"} \cap DOMAIN ret[c] # {}}

\* C25: gains visibility.  A signed-in user for whom can_see_gains is False is
\* shown "No investment yet" and no gain amount on any card of the performance
\* section; when the gains allowlist is not configured, every user is shown
\* the gains.
C25_GainsVisibility ==
    IsMainApp =>
        /\ ~can_see_gains(session_state, SessionUser) =>
              /\ ret.gains_today = [text |-> "No investment yet"]
              /\ CardsWithAmounts = {}
        /\ "gains_allowed_users" \notin DOMAIN secrets.features =>
              /\ can_see_gains(session_state, SessionUser)
              /\ "estimated" \in DOMAIN ret.gains_today

\* the three appreciation amounts of a SALE result
Appreciations == [k \in Participants |-> ret[k].appreciation]

\* C26: appreciation distributed.  For balances built by build_daily_invested
\* and an evaluation date after the acquisition date, the three appreciation
\* amounts sum to the total appreciation times the number of evaluated days
\* with Total > 0 over the number of days between the two dates; the sum is the
\* total appreciation when capital is invested on every evaluated day, and
\* never exceeds it.
C26_AppreciationDistributed ==
    (IsSale /\ call.when > acq_date) =>
        LET total == TotalAppreciationAt(call.when)
            days == call.when - acq_date
        IN  /\ Sum3(Appreciations) = RMul(total, Norm(Cardinality(FundedDays), days))
            /\ FundedDays = EvaluatedDays => Sum3(Appreciations) = total
            /\ RLeq(Sum3(Appreciations), total)

\* capital arrives on the second window only, the property rose, and the
\* evaluation covers unfunded and funded days: part of the appreciation, and
\* not all of it, is distributed
C26_Witness ==
    /\ IsSale
    /\ FundedDays # {}
    /\ FundedDays # EvaluatedDays
    /\ RLt(RZero, Sum3(Appreciations))
    /\ RLt(Sum3(Appreciations), TotalAppreciationAt(call.when))

IsAggregate == call.op = "per_part_guarantee"

\* what per_part_guarantee_by_investment_date gives participant k on the
\* arguments of the call
PerEvent(k) ==
    per_part_guarantee_by_investment_date(call.when, contrib_df, call.rate_annual)[k]

\* the windows on which participant k contributes
Funded(k) == {w \in DOMAIN contrib_df : Contribution(k, w) > 0}

\* C27: aggregate against per-event accrual, as stated.  For the balances built
\* from a table, any rate >= 0 and any date after the acquisition date,
\* per_part_guarantee gives every participant at least what
\* per_part_guarantee_by_investment_date gives; the two are equal when all the
\* participant's contributions are dated on the acquisition date, and differ
\* when a positive contribution is dated later.
C27_AggregateDominates ==
    (IsAggregate /\ call.when > acq_date) =>
        \A k \in Participants :
            /\ RLeq(PerEvent(k), ret[k])
            /\ Funded(k) \subseteq {acq_date} => ret[k] = PerEvent(k)
            /\ Funded(k) \ {acq_date} # {} => ret[k] # PerEvent(k)

\* C27, amended: the same for balances that were built through the evaluation
\* date; the two differ (the aggregate is the larger) when the rate is positive
\* and a positive contribution is dated after the acquisition date and on or
\* before the evaluation date.
C27_AggregateDominatesAmended ==
    (IsAggregate /\ call.when > acq_date
        /\ SetMax(DOMAIN daily_invested) >= call.when) =>
        \A k \in Participants :
            /\ RLeq(PerEvent(k), ret[k])
            /\ Funded(k) \subseteq {acq_date} => ret[k] = PerEvent(k)
            /\ (RLt(RZero, call.rate_annual)
                  /\ \E w \in Funded(k) : acq_date < w /\ w <= call.when)
               => RLt(PerEvent(k), ret[k])

\* balances built through the evaluation date, a participant funded on both
\* windows: the aggregate accrual is positive and larger than the per-event one
C27_Witness ==
    /\ IsAggregate
    /\ SetMax(DOMAIN daily_invested) >= call.when
    /\ \E k \in Participants :
          /\ acq_date \in Funded(k)
          /\ \E w \in Funded(k) : acq_date < w /\ w < call.when
          /\ RLt(RZero, PerEvent(k))
          /\ RLt(PerEvent(k), ret[k])

\* what exit_gains_at_date gives participant k on the inputs of a SALE call
ExitAmount(k) ==
    exit_gains_at_date(call.when, acq_date, acq_price, price_series, daily_invested,
                       call.contrib_df).amounts[k]

\* C28: SALE against EXIT.  On the same inputs, with the contribution table
\* given to both and an evaluation date after the acquisition date and before
\* the rate cutoff, the SALE final amounts of New investor and of Other
\* investors are at least their EXIT amounts, and Antoine's SALE final amount
\* is at most Antoine's EXIT amount.
C28_SaleAgainstExit ==
    (IsSale /\ WithTable /\ acq_date < call.when /\ call.when < EXIT_RATE_CUTOFF) =>
        /\ \A k \in Others : RLeq(ExitAmount(k), ret[k].final)
        /\ RLeq(ret["Antoine"].final, ExitAmount("Antoine"))

\* before the cutoff, New investor's appreciation beats a positive guarantee:
\* the SALE amount is strictly above the EXIT amount, and Antoine's below
C28_Witness ==
    /\ IsSale
    /\ WithTable
    /\ acq_date < call.when
    /\ call.when < EXIT_RATE_CUTOFF
    /\ RLt(RZero, ExitAmount("New investor"))
    /\ RLt(ExitAmount("New investor"), ret["New investor"].final)
    /\ RLt(ret["Antoine"].final, ExitAmount("Antoine"))

\* the sign-in the step is about has an email and a password that a configured
\* user has
MatchingSignIn ==
    /\ call'.op = "sign_in"
    /\ \E i \in DOMAIN secrets.users :
          /\ secrets.users[i].email = call'.email
          /\ secrets.users[i].password = call'.password

\* C29: the sign-in gate.  main_app is rendered only for a session with a user,
\* and a session gets its user only from a sign-in whose email and password
\* are those of a configured user, and keeps that user until the log-out; a
\* sign-in that does not match leaves the session without a user, on the login
\* page; Log out leaves nothing of the session, and the run that follows shows
\* the login page.
C29_SignInGate ==
    [][/\ ret'.page = "main_app" =>
            /\ "user" \in DOMAIN session_state'
            /\ \/ "user" \in DOMAIN session_state /\ call'.op # "log_out"
               \/ MatchingSignIn
       /\ ("user" \in DOMAIN session_state' /\ "user" \notin DOMAIN session_state) =>
            /\ MatchingSignIn
            /\ session_state'["user"] = call'.email
       /\ ("user" \in DOMAIN session_state /\ call'.op # "log_out") =>
            /\ "user" \in DOMAIN session_state'
            /\ session_state'["user"] = session_state["user"]
       /\ (call'.op = "sign_in" /\ ~MatchingSignIn) =>
            /\ "user" \notin DOMAIN session_state'
            /\ ret'.page = "login_page"
       /\ call'.op = "log_out" =>
            /\ session_state' = ("admin_authed" :> FALSE)
            /\ ret'.page = "login_page"]_vars

\* a user who signed in with the configured password is on the dashboard
C29_Witness ==
    /\ call.op = "sign_in"
    /\ IsMainApp
    /\ session_state["user"] = call.email
    /\ \E i \in DOMAIN secrets.users :
          /\ secrets.users[i].email = call.email
          /\ secrets.users[i].password = call.password

\* C30: the administrator flag.  For a signed-in user admin_authed is true
\* exactly when the dashboard treats the user as administrator: is_admin in
\* main_app, and the allowance can_see_gains and can_see_earliest_sell_date
\* give an administrator whatever the allowlists say.  A non-administrator
\* always views the dashboard as "New investor".
C30_AdminFlag ==
    IsMainApp =>
        /\ session_state["admin_authed"] <=> ret.is_admin
        /\ session_state["admin_authed"] =>
              /\ can_see_gains(session_state, SessionUser)
              /\ can_see_earliest_sell_date(session_state, SessionUser)
        /\ ~ret.is_admin => ret.selected_participant = "New investor"

====
